---- MODULE Spec2Model ----
(***************************************************************************)
(* State-machine model of the "Ukrainian Magicals" NFT contract            *)
(* (contract/src/lib.rs).  The contract is a near_bindgen struct           *)
(*   Contract { tokens: NonFungibleToken, metadata: LazyOption<..> }       *)
(* whose methods run one at a time inside the NEAR runtime: a method call  *)
(* is a transaction on the contract's storage that is committed when the   *)
(* method returns and discarded when it panics.                            *)
(*                                                                         *)
(* The library routines the contract calls (near_contract_standards        *)
(* internal_mint_with_refund, refund_deposit_to_account, the macro         *)
(* generated nft_* methods; near_sdk PanicOnDefault, #[init], #[payable])  *)
(* are modelled at the places lib.rs calls or derives them.                *)
(***************************************************************************)
EXTENDS Integers, Sequences, FiniteSets, TLC

VARIABLES
    state_exists,       \* env::state_exists(): the STATE key holds a Contract
    tokens,             \* Contract.tokens : NonFungibleToken
    metadata,           \* Contract.metadata : LazyOption<NFTContractMetadata>
    storage_usage,      \* env::storage_usage(), bytes of persistent state
    storage_byte_cost,  \* env::storage_byte_cost(), currency per byte
    account_balance,    \* env::account_balance() of the contract account
    receipt,            \* outcome of the last call, as the caller observes it
    mutations           \* number of calls that have changed the contract so far

vars == <<state_exists, tokens, metadata, storage_usage, storage_byte_cost,
          account_balance, receipt, mutations>>

----------------------------------------------------------------------------
(* Bounds of the model *)

\* largest storage price the environment may report
MaxPrice == 2
\* bytes the runtime charges for one stored record, besides its payload
RecordBytes == 1
\* latest block timestamp (nanoseconds) a call may run at
MaxTimestamp == 2000000000
\* approval ids handed out per token before the model stops approving
MaxApprovalId == 2
\* state-changing calls explored in one history of the whole contract
MaxMutations == 4

----------------------------------------------------------------------------
(* Values *)

\* near_sdk::test_utils::accounts(0..2)
Accounts == {"alice", "bob", "charlie"}

\* the accounts the registry methods are called by and called with: the two
\* the unit tests of transfer, approve and revoke use
Parties == {"alice", "bob"}

None == "None"
NoPanic == "NoPanic"

EmptyMap == [k \in {} |-> 0]

Put(m, k, v) == [x \in (DOMAIN m) \cup {k} |-> IF x = k THEN v ELSE m[x]]

Remove(m, k) == [x \in (DOMAIN m) \ {k} |-> m[x]]

Has(m, k) == k \in DOMAIN m

\* Option<T> as a set of at most one value
Some(v) == {v}

Unwrap(o) == CHOOSE v \in o : TRUE

\* format!("{}", n) for an unsigned integer: its decimal digits
DigitChars == <<"0", "1", "2", "3", "4", "5", "6", "7", "8", "9">>

RECURSIVE FormatU64(_)
FormatU64(n) ==
    IF n < 10 THEN <<DigitChars[n + 1]>>
    ELSE FormatU64(n \div 10) \o <<DigitChars[(n % 10) + 1]>>

NFT_NAME == "Ukrainian Magicals"
NFT_SYMBOL == "UAMAG"

\* the (token id, title) pairs nft_mint_all passes, in call order
Catalog == << [token_id |-> "0", title |-> "#0 Mariupol"],
              [token_id |-> "1", title |-> "#1 Kharkiv"],
              [token_id |-> "2", title |-> "#2 Mykolaiv"] >>

CatalogIds == {Catalog[i].token_id : i \in 1..Len(Catalog)}

\* block timestamps (ns) the environment may present to a call
BlockTimestamps == {999999999, MaxTimestamp}

\* upper bound of the bytes the three token creations add (a record each and
\* the owner's enumeration set), and the deposits a caller may attach
MaxCatalogBytes == (Len(Catalog) + 1) * RecordBytes

MaxDeposit == MaxPrice * MaxCatalogBytes + 2

Deposits == 0..MaxDeposit

\* deposits tried on the methods that ask for one yoctoNEAR
YoctoDeposits == 0..2

\* the few deposits tried on nft_mint_all next to the registry methods
EdgeDeposits == {0, 1, MaxDeposit}

\* deposits tried on nft_approve: around the cost of one approval record
ApproveDeposits == {0, 1} \cup {MaxPrice * RecordBytes + k : k \in 0..2}

\* token ids callers pass to the registry methods: one of the catalog and
\* one that is never minted
TokenIds == {Catalog[2].token_id, "3"}

\* Option<u64> approval ids callers pass
ApprovalIds == {{}} \cup {{i} : i \in 1..MaxApprovalId}

\* deposits tried on the test helper nft_mint: nothing, and around the cost
\* of one token record with and without a new enumeration set
MintDeposits == {0, MaxPrice * RecordBytes}
                \cup {2 * MaxPrice * RecordBytes + k : k \in 0..2}

\* the timestamp of calls that do not read it
AnyTimestamp == MaxTimestamp

----------------------------------------------------------------------------
(* The execution of one call: the contract state the method works on, the  *)
(* promises and logs it has produced, and the panic that stopped it.       *)

\* NonFungibleToken::new(prefix, owner_id, Some(..), Some(..), Some(..))
NonFungibleToken_new(owner) ==
    [ owner_id               |-> owner,
      owner_by_id            |-> EmptyMap,
      token_metadata_by_id   |-> EmptyMap,
      tokens_per_owner       |-> EmptyMap,
      approvals_by_id        |-> EmptyMap,
      next_approval_id_by_id |-> EmptyMap ]

\* the value of `tokens` while no Contract is stored
NoTokens == NonFungibleToken_new(None)

\* the call's environment (VMContext)
Env(pred, deposit, timestamp) ==
    [ predecessor_account_id |-> pred,
      attached_deposit       |-> deposit,
      block_timestamp        |-> timestamp ]

Panic(vm, msg) == [vm EXCEPT !.panic = msg]

Running(vm) == vm.panic = NoPanic

Trace(vm, ev) == [vm EXCEPT !.trace = Append(@, ev)]

RECURSIVE SumAmounts(_)
SumAmounts(ps) ==
    IF ps = <<>> THEN 0 ELSE Head(ps).amount + SumAmounts(Tail(ps))

\* env::storage_usage(): a read of the meter
ReadStorageUsage(vm) == Trace(vm, [op |-> "storage_usage", value |-> vm.storage_usage])

\* refund_deposit_to_account with the comparison made strict: a deposit equal
\* to the cost is turned away
refund_deposit_strict(vm, env, storage_used, account_id) ==
    IF ~Running(vm) THEN vm
    ELSE
      LET required_cost == storage_byte_cost * storage_used
          attached      == env.attached_deposit
          vm1 == Trace(vm, [op |-> "refund_deposit", storage_used |-> storage_used,
                            required_cost |-> required_cost])
      IN  IF ~(required_cost < attached)
          THEN Panic(vm1, "Must attach yoctoNEAR to cover storage")
          ELSE LET refund == attached - required_cost
               IN  IF refund > 1
                   THEN [vm1 EXCEPT !.promises =
                            Append(@, [receiver_id |-> account_id, amount |-> refund])]
                   ELSE vm1

\* refund_deposit_to_account without the require!: an underfunded call goes on
refund_deposit_unchecked(vm, env, storage_used, account_id) ==
    IF ~Running(vm) THEN vm
    ELSE
      LET required_cost == storage_byte_cost * storage_used
          attached      == env.attached_deposit
          vm1 == Trace(vm, [op |-> "refund_deposit", storage_used |-> storage_used,
                            required_cost |-> required_cost])
          refund == attached - required_cost
      IN  IF refund > 1
          THEN [vm1 EXCEPT !.promises =
                   Append(@, [receiver_id |-> account_id, amount |-> refund])]
          ELSE vm1

\* refund_deposit_to_account that sends back the whole attached deposit once
\* the deposit was found to cover the cost
refund_deposit_returning_all(vm, env, storage_used, account_id) ==
    IF ~Running(vm) THEN vm
    ELSE
      LET required_cost == storage_byte_cost * storage_used
          attached      == env.attached_deposit
          vm1 == Trace(vm, [op |-> "refund_deposit", storage_used |-> storage_used,
                            required_cost |-> required_cost])
      IN  IF ~(required_cost <= attached)
          THEN Panic(vm1, "Must attach yoctoNEAR to cover storage")
          ELSE IF attached > 1
               THEN [vm1 EXCEPT !.promises =
                        Append(@, [receiver_id |-> account_id, amount |-> attached])]
               ELSE vm1

\* near_contract_standards::non_fungible_token::refund_deposit_to_account:
\*   required_cost = storage_byte_cost * storage_used;
\*   require!(required_cost <= attached_deposit, "Must attach ..");
\*   refund = attached_deposit - required_cost;
\*   if refund > 1 { Promise::new(account_id).transfer(refund) }
refund_deposit_to_account(vm, env, storage_used, account_id) ==
    IF ~Running(vm) THEN vm
    ELSE
      LET required_cost == storage_byte_cost * storage_used
          attached      == env.attached_deposit
          vm1 == Trace(vm, [op |-> "refund_deposit", storage_used |-> storage_used,
                            required_cost |-> required_cost])
      IN  IF ~(required_cost <= attached)
          THEN Panic(vm1, "Must attach yoctoNEAR to cover storage")
          ELSE LET refund == attached - required_cost
               IN  IF refund > 1
                   THEN [vm1 EXCEPT !.promises =
                            Append(@, [receiver_id |-> account_id, amount |-> refund])]
                   ELSE vm1

\* bytes the enumeration index grows by when `owner` receives one more token:
\* the owner's set is created with the first
EnumerationBytes(nft, owner) ==
    IF Has(nft.tokens_per_owner, owner) THEN 0 ELSE RecordBytes

\* the insertions of internal_mint_with_refund, once its checks have passed,
\* and its refund when a refund_id is given
InsertToken(vm, env, token_id, token_owner_id, token_metadata, refund_id) ==
    IF ~Running(vm) THEN vm
    ELSE
      LET nft == vm.tokens
          initial_storage_usage == vm.storage_usage
          owned == IF Has(nft.tokens_per_owner, token_owner_id)
                   THEN nft.tokens_per_owner[token_owner_id] ELSE {}
          grown == RecordBytes + EnumerationBytes(nft, token_owner_id)
          nft1 == [nft EXCEPT
                    !.owner_by_id = Put(@, token_id, token_owner_id),
                    !.token_metadata_by_id =
                        Put(@, token_id, Unwrap(token_metadata)),
                    !.tokens_per_owner =
                        Put(@, token_owner_id, owned \cup {token_id})]
          vm1 == Trace([vm EXCEPT !.tokens = nft1,
                                  !.storage_usage = @ + grown],
                       [op |-> "mint", token_id |-> token_id])
      IN  IF refund_id = None THEN vm1
          ELSE refund_deposit_to_account(
                  vm1, env, vm1.storage_usage - initial_storage_usage, refund_id)

\* internal_mint_with_refund without the "token_id must be unique" check: an
\* existing token is overwritten
internal_mint_overwriting(vm, env, token_id, token_owner_id, token_metadata, refund_id) ==
    InsertToken(vm, env, token_id, token_owner_id, token_metadata, refund_id)

\* NonFungibleToken::internal_mint_with_refund(token_id, owner, metadata, refund_id)
internal_mint_with_refund(vm, env, token_id, token_owner_id, token_metadata, refund_id) ==
    IF ~Running(vm) THEN vm
    ELSE IF token_metadata = {}
    THEN Panic(vm, "Must provide metadata")
    ELSE IF Has(vm.tokens.owner_by_id, token_id)
    THEN Panic(vm, "token_id must be unique")
    ELSE InsertToken(vm, env, token_id, token_owner_id, token_metadata, refund_id)

\* NftMint { owner_id, token_ids, memo: None }.emit()
EmitNftMint(vm, owner, ids) ==
    IF ~Running(vm) THEN vm
    ELSE Trace([vm EXCEPT !.logs = Append(@, [event |-> "nft_mint",
                                              owner_id |-> owner,
                                              token_ids |-> ids])],
               [op |-> "emit"])

\* Some(TokenMetadata { title, copies: Some(1), issued_at: Some(..), .. }) of
\* catalog item i
CatalogMetadata(i, issued_at) ==
    Some([title |-> Catalog[i].title, copies |-> 1, issued_at |-> Some(issued_at)])

\* the three internal_mint_with_refund calls of nft_mint_all, in order
MintCatalog(vm, env, refund_id) ==
    LET issued_at == FormatU64(env.block_timestamp \div 1000000000)
        owner == vm.tokens.owner_id
        vm1 == internal_mint_with_refund(vm, env, Catalog[1].token_id, owner,
                                         CatalogMetadata(1, issued_at), refund_id)
        vm2 == internal_mint_with_refund(vm1, env, Catalog[2].token_id, owner,
                                         CatalogMetadata(2, issued_at), refund_id)
    IN  internal_mint_with_refund(vm2, env, Catalog[3].token_id, owner,
                                  CatalogMetadata(3, issued_at), refund_id)

\* the rest of nft_mint_all after the creations: second snapshot, the
\* reconciliation against the difference, the mint event
ReconcileAndEmit(vm, env, initial_storage, owner) ==
    LET vm1 == IF Running(vm) THEN ReadStorageUsage(vm) ELSE vm
        vm2 == refund_deposit_to_account(vm1, env,
                    vm1.storage_usage - initial_storage,
                    env.predecessor_account_id)
    IN  EmitNftMint(vm2, owner, <<Catalog[1].token_id, Catalog[2].token_id,
                                  Catalog[3].token_id>>)

\* nft_mint_all with each creation refunding on its own (refund_id Some(..))
nft_mint_all_refunding_each(vm, env) ==
    ReconcileAndEmit(MintCatalog(ReadStorageUsage(vm), env,
                                 env.predecessor_account_id),
                     env, vm.storage_usage, vm.tokens.owner_id)

\* nft_mint_all with the mint event emitted before the reconciliation
nft_mint_all_emitting_first(vm, env) ==
    LET vm1 == MintCatalog(ReadStorageUsage(vm), env, None)
        vm2 == EmitNftMint(vm1, vm.tokens.owner_id,
                           <<Catalog[1].token_id, Catalog[2].token_id,
                             Catalog[3].token_id>>)
        vm3 == IF Running(vm2) THEN ReadStorageUsage(vm2) ELSE vm2
    IN  refund_deposit_to_account(vm3, env, vm3.storage_usage - vm.storage_usage,
                                  env.predecessor_account_id)

\* Contract::nft_mint_all(&mut self)
nft_mint_all(vm, env) ==
    ReconcileAndEmit(MintCatalog(ReadStorageUsage(vm), env, None),
                     env, vm.storage_usage, vm.tokens.owner_id)

\* tests::sample_token_metadata()
sample_token_metadata == [title |-> "Olympus Mons", copies |-> 1, issued_at |-> {}]

\* NonFungibleToken::internal_mint(token_id, owner, metadata): mints with a
\* refund to the predecessor and emits the mint event of the one token
internal_mint(vm, env, token_id, token_owner_id, token_metadata) ==
    LET vm1 == internal_mint_with_refund(vm, env, token_id, token_owner_id,
                                         token_metadata, env.predecessor_account_id)
        vm2 == EmitNftMint(vm1, token_owner_id, <<token_id>>)
    IN  IF ~Running(vm2) THEN vm2
        ELSE [vm2 EXCEPT !.returned = {[ token_id |-> token_id,
                                         owner_id |-> token_owner_id,
                                         metadata |-> Unwrap(token_metadata),
                                         approved_account_ids |-> EmptyMap ]}]

\* nft_mint without the assert_eq! on the predecessor: any account mints
nft_mint_unguarded(vm, env, token_id, token_owner_id, token_metadata) ==
    internal_mint(vm, env, token_id, token_owner_id, Some(token_metadata))

\* tests::Contract::nft_mint(token_id, token_owner_id, token_metadata)
nft_mint(vm, env, token_id, token_owner_id, token_metadata) ==
    IF env.predecessor_account_id # vm.tokens.owner_id
    THEN Panic(vm, "Unauthorized")
    ELSE internal_mint(vm, env, token_id, token_owner_id, Some(token_metadata))

----------------------------------------------------------------------------
(* The registry methods that impl_non_fungible_token_core! and             *)
(* impl_non_fungible_token_approval! generate for Contract, delegating to  *)
(* self.tokens.                                                            *)

Return(vm, v) == [vm EXCEPT !.returned = {v}]

\* near_sdk::assert_one_yocto()
assert_one_yocto(vm, env) ==
    IF ~Running(vm) THEN vm
    ELSE IF env.attached_deposit = 1 THEN vm
    ELSE Panic(vm, "Requires attached deposit of exactly 1 yoctoNEAR")

\* near_sdk::assert_at_least_one_yocto()
assert_at_least_one_yocto(vm, env) ==
    IF ~Running(vm) THEN vm
    ELSE IF env.attached_deposit >= 1 THEN vm
    ELSE Panic(vm, "Requires attached deposit of at least 1 yoctoNEAR")

\* bytes_for_approved_account_id(account_id)
bytes_for_approved_account_id(account_id) == RecordBytes

\* the approvals HashMap of a token (approvals_by_id.get(token_id)), as Option
ApprovalsOf(nft, token_id) ==
    IF Has(nft.approvals_by_id, token_id)
    THEN Some(nft.approvals_by_id[token_id]) ELSE {}

\* NonFungibleToken::internal_transfer_unguarded(token_id, from, to)
internal_transfer_unguarded(nft, token_id, from, to) ==
    LET from_left == nft.tokens_per_owner[from] \ {token_id}
        per1 == IF from_left = {} THEN Remove(nft.tokens_per_owner, from)
                ELSE Put(nft.tokens_per_owner, from, from_left)
        to_had == IF Has(per1, to) THEN per1[to] ELSE {}
    IN  [nft EXCEPT !.owner_by_id = Put(@, token_id, to),
                    !.tokens_per_owner = Put(per1, to, to_had \cup {token_id})]

\* storage the enumeration index gains or loses when token moves from -> to
TransferBytes(nft, token_id, from, to) ==
    (IF nft.tokens_per_owner[from] = {token_id} THEN 0 - RecordBytes ELSE 0)
    + (IF Has(nft.tokens_per_owner, to) THEN 0 ELSE RecordBytes)

\* internal_transfer that leaves the token's approvals in place
internal_transfer_keeping_approvals(vm, sender_id, receiver_id, token_id, approval_id) ==
    IF ~Running(vm) THEN vm
    ELSE
      LET nft == vm.tokens
      IN  IF ~Has(nft.owner_by_id, token_id) THEN Panic(vm, "Token not found")
          ELSE
            LET owner_id == nft.owner_by_id[token_id]
                approved_account_ids == ApprovalsOf(nft, token_id)
            IN  IF sender_id # owner_id /\ approved_account_ids = {}
                THEN Panic(vm, "Unauthorized")
                ELSE IF sender_id # owner_id
                        /\ ~Has(Unwrap(approved_account_ids), sender_id)
                THEN Panic(vm, "Sender not approved")
                ELSE IF sender_id # owner_id /\ approval_id # {}
                        /\ Unwrap(approved_account_ids)[sender_id] # Unwrap(approval_id)
                THEN Panic(vm, "The actual approval_id is different from the given approval_id")
                ELSE IF owner_id = receiver_id
                THEN Panic(vm, "Current and next owner must differ")
                ELSE
                  LET nft2 == internal_transfer_unguarded(nft, token_id,
                                                          owner_id, receiver_id)
                      vm1 == [vm EXCEPT
                                !.tokens = nft2,
                                !.storage_usage = @
                                    + TransferBytes(nft, token_id, owner_id,
                                                    receiver_id),
                                !.logs = Append(@, [event |-> "nft_transfer",
                                                    old_owner_id |-> owner_id,
                                                    new_owner_id |-> receiver_id,
                                                    token_ids |-> <<token_id>>])]
                  IN  Trace(vm1, [op |-> "transfer", token_id |-> token_id])

\* NonFungibleToken::internal_transfer(sender, receiver, token_id, approval_id, memo)
internal_transfer(vm, sender_id, receiver_id, token_id, approval_id) ==
    IF ~Running(vm) THEN vm
    ELSE
      LET nft == vm.tokens
      IN  IF ~Has(nft.owner_by_id, token_id) THEN Panic(vm, "Token not found")
          ELSE
            LET owner_id == nft.owner_by_id[token_id]
                approved_account_ids == ApprovalsOf(nft, token_id)
                released == IF approved_account_ids = {} THEN 0
                            ELSE Cardinality(DOMAIN Unwrap(approved_account_ids))
                                 * RecordBytes
                nft1 == [nft EXCEPT !.approvals_by_id = Remove(@, token_id)]
            IN  IF sender_id # owner_id /\ approved_account_ids = {}
                THEN Panic(vm, "Unauthorized")
                ELSE IF sender_id # owner_id
                        /\ ~Has(Unwrap(approved_account_ids), sender_id)
                THEN Panic(vm, "Sender not approved")
                ELSE IF sender_id # owner_id /\ approval_id # {}
                        /\ Unwrap(approved_account_ids)[sender_id] # Unwrap(approval_id)
                THEN Panic(vm, "The actual approval_id is different from the given approval_id")
                ELSE IF owner_id = receiver_id
                THEN Panic(vm, "Current and next owner must differ")
                ELSE
                  LET nft2 == internal_transfer_unguarded(nft1, token_id,
                                                          owner_id, receiver_id)
                      vm1 == [vm EXCEPT
                                !.tokens = nft2,
                                !.storage_usage = @ - released
                                    + TransferBytes(nft1, token_id, owner_id,
                                                    receiver_id),
                                !.logs = Append(@, [event |-> "nft_transfer",
                                                    old_owner_id |-> owner_id,
                                                    new_owner_id |-> receiver_id,
                                                    token_ids |-> <<token_id>>])]
                  IN  Trace(vm1, [op |-> "transfer", token_id |-> token_id])

\* NonFungibleTokenCore::nft_transfer(receiver_id, token_id, approval_id, memo)
nft_transfer(vm, env, receiver_id, token_id, approval_id) ==
    internal_transfer(assert_one_yocto(vm, env), env.predecessor_account_id,
                      receiver_id, token_id, approval_id)

\* NonFungibleTokenCore::nft_token(token_id) -> Option<Token>
nft_token(vm, token_id) ==
    IF ~Running(vm) THEN vm
    ELSE
      LET nft == vm.tokens
      IN  IF ~Has(nft.owner_by_id, token_id) THEN vm
          ELSE Return(vm, [ token_id |-> token_id,
                            owner_id |-> nft.owner_by_id[token_id],
                            metadata |-> nft.token_metadata_by_id[token_id],
                            approved_account_ids |->
                               IF Has(nft.approvals_by_id, token_id)
                               THEN nft.approvals_by_id[token_id]
                               ELSE EmptyMap ])

\* nft_approve numbering a token's approvals from 0
nft_approve_from_zero(vm, env, token_id, account_id) ==
    LET vm0 == assert_at_least_one_yocto(vm, env)
        nft == vm0.tokens
    IN  IF ~Running(vm0) THEN vm0
        ELSE IF ~Has(nft.owner_by_id, token_id) THEN Panic(vm0, "Token not found")
        ELSE IF env.predecessor_account_id # nft.owner_by_id[token_id]
        THEN Panic(vm0, "Predecessor must be token owner.")
        ELSE
          LET approved_account_ids ==
                  IF Has(nft.approvals_by_id, token_id)
                  THEN nft.approvals_by_id[token_id] ELSE EmptyMap
              approval_id ==
                  IF Has(nft.next_approval_id_by_id, token_id)
                  THEN nft.next_approval_id_by_id[token_id] ELSE 0
              old_approval_id ==
                  IF Has(approved_account_ids, account_id)
                  THEN Some(approved_account_ids[account_id]) ELSE {}
              nft1 == [nft EXCEPT
                        !.approvals_by_id =
                            Put(@, token_id,
                                Put(approved_account_ids, account_id, approval_id)),
                        !.next_approval_id_by_id = Put(@, token_id, approval_id + 1)]
              storage_used == IF old_approval_id = {}
                              THEN bytes_for_approved_account_id(account_id) ELSE 0
              grown == storage_used
                       + (IF Has(nft.next_approval_id_by_id, token_id)
                          THEN 0 ELSE RecordBytes)
              vm1 == Trace([vm0 EXCEPT !.tokens = nft1,
                                       !.storage_usage = @ + grown],
                           [op |-> "approve", token_id |-> token_id])
          IN  refund_deposit_to_account(vm1, env, storage_used,
                                        env.predecessor_account_id)

\* NonFungibleTokenApproval::nft_approve(token_id, account_id, msg = None)
nft_approve(vm, env, token_id, account_id) ==
    LET vm0 == assert_at_least_one_yocto(vm, env)
        nft == vm0.tokens
    IN  IF ~Running(vm0) THEN vm0
        ELSE IF ~Has(nft.owner_by_id, token_id) THEN Panic(vm0, "Token not found")
        ELSE IF env.predecessor_account_id # nft.owner_by_id[token_id]
        THEN Panic(vm0, "Predecessor must be token owner.")
        ELSE
          LET approved_account_ids ==
                  IF Has(nft.approvals_by_id, token_id)
                  THEN nft.approvals_by_id[token_id] ELSE EmptyMap
              approval_id ==
                  IF Has(nft.next_approval_id_by_id, token_id)
                  THEN nft.next_approval_id_by_id[token_id] ELSE 1
              old_approval_id ==
                  IF Has(approved_account_ids, account_id)
                  THEN Some(approved_account_ids[account_id]) ELSE {}
              nft1 == [nft EXCEPT
                        !.approvals_by_id =
                            Put(@, token_id,
                                Put(approved_account_ids, account_id, approval_id)),
                        !.next_approval_id_by_id = Put(@, token_id, approval_id + 1)]
              storage_used == IF old_approval_id = {}
                              THEN bytes_for_approved_account_id(account_id) ELSE 0
              grown == storage_used
                       + (IF Has(nft.next_approval_id_by_id, token_id)
                          THEN 0 ELSE RecordBytes)
              vm1 == Trace([vm0 EXCEPT !.tokens = nft1,
                                       !.storage_usage = @ + grown],
                           [op |-> "approve", token_id |-> token_id])
          IN  refund_deposit_to_account(vm1, env, storage_used,
                                        env.predecessor_account_id)

\* refund_approved_account_ids_iter(account_id, approved_account_ids)
refund_approved_account_ids_iter(vm, account_id, approved) ==
    LET storage_released == Cardinality(approved) * RecordBytes
    IN  [vm EXCEPT !.promises =
            Append(@, [receiver_id |-> account_id,
                       amount |-> storage_released * storage_byte_cost])]

\* nft_revoke that refunds the approval's storage and leaves the approval
nft_revoke_refunding_only(vm, env, token_id, account_id) ==
    LET vm0 == assert_one_yocto(vm, env)
        nft == vm0.tokens
    IN  IF ~Running(vm0) THEN vm0
        ELSE IF ~Has(nft.owner_by_id, token_id) THEN Panic(vm0, "Token not found")
        ELSE IF env.predecessor_account_id # nft.owner_by_id[token_id]
        THEN Panic(vm0, "Predecessor must be token owner.")
        ELSE IF ~Has(nft.approvals_by_id, token_id) THEN vm0
        ELSE IF ~Has(nft.approvals_by_id[token_id], account_id) THEN vm0
        ELSE Trace(refund_approved_account_ids_iter(
                       vm0, env.predecessor_account_id, {account_id}),
                   [op |-> "revoke", token_id |-> token_id])

\* NonFungibleTokenApproval::nft_revoke(token_id, account_id)
nft_revoke(vm, env, token_id, account_id) ==
    LET vm0 == assert_one_yocto(vm, env)
        nft == vm0.tokens
    IN  IF ~Running(vm0) THEN vm0
        ELSE IF ~Has(nft.owner_by_id, token_id) THEN Panic(vm0, "Token not found")
        ELSE IF env.predecessor_account_id # nft.owner_by_id[token_id]
        THEN Panic(vm0, "Predecessor must be token owner.")
        ELSE IF ~Has(nft.approvals_by_id, token_id) THEN vm0
        ELSE IF ~Has(nft.approvals_by_id[token_id], account_id) THEN vm0
        ELSE
          LET left == Remove(nft.approvals_by_id[token_id], account_id)
              vm1 == refund_approved_account_ids_iter(
                         vm0, env.predecessor_account_id, {account_id})
              nft1 == [nft EXCEPT !.approvals_by_id =
                          IF DOMAIN left = {} THEN Remove(@, token_id)
                          ELSE Put(@, token_id, left)]
          IN  Trace([vm1 EXCEPT !.tokens = nft1,
                                !.storage_usage = @ - RecordBytes],
                    [op |-> "revoke", token_id |-> token_id])

\* NonFungibleTokenApproval::nft_revoke_all(token_id)
nft_revoke_all(vm, env, token_id) ==
    LET vm0 == assert_one_yocto(vm, env)
        nft == vm0.tokens
    IN  IF ~Running(vm0) THEN vm0
        ELSE IF ~Has(nft.owner_by_id, token_id) THEN Panic(vm0, "Token not found")
        ELSE IF env.predecessor_account_id # nft.owner_by_id[token_id]
        THEN Panic(vm0, "Predecessor must be token owner.")
        ELSE IF ~Has(nft.approvals_by_id, token_id) THEN vm0
        ELSE
          LET approved == DOMAIN nft.approvals_by_id[token_id]
              vm1 == refund_approved_account_ids_iter(
                         vm0, env.predecessor_account_id, approved)
              nft1 == [nft EXCEPT !.approvals_by_id = Remove(@, token_id)]
          IN  Trace([vm1 EXCEPT !.tokens = nft1,
                                !.storage_usage = @ - Cardinality(approved) * RecordBytes],
                    [op |-> "revoke_all", token_id |-> token_id])

\* NonFungibleTokenApproval::nft_is_approved(token_id, approved_account_id, approval_id)
nft_is_approved(vm, token_id, approved_account_id, approval_id) ==
    IF ~Running(vm) THEN vm
    ELSE
      LET nft == vm.tokens
      IN  IF ~Has(nft.owner_by_id, token_id) THEN Panic(vm, "Token not found")
          ELSE IF ~Has(nft.approvals_by_id, token_id) THEN Return(vm, FALSE)
          ELSE IF ~Has(nft.approvals_by_id[token_id], approved_account_id)
          THEN Return(vm, FALSE)
          ELSE IF approval_id = {} THEN Return(vm, TRUE)
          ELSE Return(vm, Unwrap(approval_id)
                          = nft.approvals_by_id[token_id][approved_account_id])

\* NonFungibleTokenMetadataProvider::nft_metadata(): self.metadata.get().unwrap()
nft_metadata(vm) ==
    IF ~Running(vm) THEN vm ELSE Return(vm, Unwrap(vm.metadata))

----------------------------------------------------------------------------
(* The method wrappers near_bindgen generates, and the runtime's handling  *)
(* of the call's outcome.                                                  *)

\* the working copy a call starts from
Begin ==
    [ state_exists  |-> state_exists,
      tokens        |-> tokens,
      metadata      |-> metadata,
      storage_usage |-> storage_usage,
      promises      |-> <<>>,
      logs          |-> <<>>,
      trace         |-> <<>>,
      returned      |-> {},
      panic         |-> NoPanic ]

\* Contract::default() as #[derive(Default)] would give it: an empty contract
Contract_default_empty(vm) == vm

\* #[derive(PanicOnDefault)]: Contract::default() panics
Contract_default(vm) == Panic(vm, "The contract is not initialized")

\* env::state_read().unwrap_or_default(), the first statement of every method
StateRead(vm) ==
    IF ~Running(vm) THEN vm
    ELSE IF vm.state_exists THEN vm ELSE Contract_default(vm)

\* Contract::new()
Contract_new(vm, env) ==
    [vm EXCEPT
       !.tokens   = NonFungibleToken_new(env.predecessor_account_id),
       !.metadata = Some([name |-> NFT_NAME, symbol |-> NFT_SYMBOL])]

\* `new` exported with #[init(ignore_state)]: it runs on an initialized contract
Export_new_reinitializing(vm, env) ==
    IF env.attached_deposit # 0
    THEN Panic(vm, "Method new doesn't accept deposit")
    ELSE LET vm1 == Contract_new(vm, env)
         IN  [vm1 EXCEPT !.state_exists = TRUE,
                         !.storage_usage = @ + 2 * RecordBytes]

\* the exported `new`: #[init], not payable
Export_new(vm, env) ==
    IF env.attached_deposit # 0
    THEN Panic(vm, "Method new doesn't accept deposit")
    ELSE IF vm.state_exists
    THEN Panic(vm, "The contract has already been initialized")
    ELSE LET vm1 == Contract_new(vm, env)
         IN  [vm1 EXCEPT !.state_exists = TRUE,
                         !.storage_usage = @ + 2 * RecordBytes]

\* the exported `nft_mint_all`: #[payable], &mut self
Export_nft_mint_all(vm, env) == nft_mint_all(StateRead(vm), env)

\* the exported registry methods: #[payable] mutators and views, each
\* reading the stored Contract first
Export_nft_transfer(vm, env, receiver_id, token_id, approval_id) ==
    nft_transfer(StateRead(vm), env, receiver_id, token_id, approval_id)

Export_nft_approve(vm, env, token_id, account_id) ==
    nft_approve(StateRead(vm), env, token_id, account_id)

Export_nft_revoke(vm, env, token_id, account_id) ==
    nft_revoke(StateRead(vm), env, token_id, account_id)

Export_nft_revoke_all(vm, env, token_id) ==
    nft_revoke_all(StateRead(vm), env, token_id)

Export_nft_token(vm, token_id) == nft_token(StateRead(vm), token_id)

Export_nft_is_approved(vm, token_id, approved_account_id, approval_id) ==
    nft_is_approved(StateRead(vm), token_id, approved_account_id, approval_id)

Export_nft_metadata(vm) == nft_metadata(StateRead(vm))

\* what the runtime keeps of a call: everything when the method returns,
\* nothing when it panics
Kept(vm) == IF Running(vm) THEN vm ELSE Begin

\* the exported methods that take &mut self or are #[init]
Mutators == {"new", "nft_mint_all", "nft_mint", "nft_transfer", "nft_approve",
             "nft_revoke", "nft_revoke_all"}

\* the arguments of a method that takes none
NoArgs == EmptyMap

\* the runtime settles the call `method(args)` that ended in `vm`
Settle(method, env, args, vm) ==
    LET kept == Kept(vm)
    IN  /\ method \in Mutators => mutations < MaxMutations
        /\ mutations' = IF method \in Mutators /\ Running(vm)
                        THEN mutations + 1 ELSE mutations
        /\ state_exists'  = kept.state_exists
        /\ tokens'        = kept.tokens
        /\ metadata'      = kept.metadata
        /\ storage_usage' = kept.storage_usage
        /\ account_balance' =
              account_balance + (IF Running(vm) THEN env.attached_deposit ELSE 0)
                              - SumAmounts(kept.promises)
        /\ receipt' = [ method   |-> method,
                        env      |-> env,
                        args     |-> args,
                        panic    |-> vm.panic,
                        promises |-> kept.promises,
                        logs     |-> vm.logs,
                        trace    |-> vm.trace,
                        returned |-> kept.returned ]
        /\ UNCHANGED storage_byte_cost

----------------------------------------------------------------------------
(* Actions: one per exported method *)

NewWith(deposits) ==
    \E pred \in Accounts, deposit \in deposits :
        LET env == Env(pred, deposit, AnyTimestamp)
        IN  Settle("new", env, NoArgs, Export_new(Begin, env))

NftMintAllWith(deposits, timestamps) ==
    \E pred \in Accounts, deposit \in deposits, ts \in timestamps :
        LET env == Env(pred, deposit, ts)
        IN  Settle("nft_mint_all", env, NoArgs, Export_nft_mint_all(Begin, env))

\* next to the registry methods: few deposits, one timestamp
New == NewWith({0, 1})

NftMintAll == NftMintAllWith(EdgeDeposits, {MaxTimestamp})

\* issuance alone: every deposit, every timestamp
NewAnyDeposit == NewWith(YoctoDeposits)

NftMintAllAnyDeposit == NftMintAllWith(Deposits, BlockTimestamps)

NftTransfer ==
    \E pred \in Parties, deposit \in YoctoDeposits, receiver_id \in Parties,
       token_id \in TokenIds, approval_id \in ApprovalIds :
        LET env == Env(pred, deposit, AnyTimestamp)
        IN  Settle("nft_transfer", env,
                   [receiver_id |-> receiver_id, token_id |-> token_id,
                    approval_id |-> approval_id],
                   Export_nft_transfer(Begin, env, receiver_id, token_id, approval_id))

\* the model stops approving a token once MaxApprovalId ids were handed out
\* (the u64 counter next_approval_id_by_id is not bounded in the code)
NftApprove ==
    \E pred \in Parties, deposit \in ApproveDeposits, account_id \in Parties,
       token_id \in TokenIds :
        LET env == Env(pred, deposit, AnyTimestamp)
        IN  /\ Has(tokens.next_approval_id_by_id, token_id)
                  => tokens.next_approval_id_by_id[token_id] <= MaxApprovalId
            /\ Settle("nft_approve", env,
                      [token_id |-> token_id, account_id |-> account_id],
                      Export_nft_approve(Begin, env, token_id, account_id))

NftRevoke ==
    \E pred \in Parties, deposit \in YoctoDeposits, account_id \in Parties,
       token_id \in TokenIds :
        LET env == Env(pred, deposit, AnyTimestamp)
        IN  Settle("nft_revoke", env,
                   [token_id |-> token_id, account_id |-> account_id],
                   Export_nft_revoke(Begin, env, token_id, account_id))

NftRevokeAll ==
    \E pred \in Parties, deposit \in YoctoDeposits, token_id \in TokenIds :
        LET env == Env(pred, deposit, AnyTimestamp)
        IN  Settle("nft_revoke_all", env, [token_id |-> token_id],
                   Export_nft_revoke_all(Begin, env, token_id))

NftToken ==
    \E token_id \in TokenIds :
        LET env == Env(None, 0, AnyTimestamp)
        IN  Settle("nft_token", env, [token_id |-> token_id],
                   Export_nft_token(Begin, token_id))

NftIsApproved ==
    \E token_id \in TokenIds, account_id \in Parties, approval_id \in ApprovalIds :
        LET env == Env(None, 0, AnyTimestamp)
        IN  Settle("nft_is_approved", env,
                   [token_id |-> token_id, account_id |-> account_id,
                    approval_id |-> approval_id],
                   Export_nft_is_approved(Begin, token_id, account_id, approval_id))

NftMetadata ==
    LET env == Env(None, 0, AnyTimestamp)
    IN  Settle("nft_metadata", env, NoArgs, Export_nft_metadata(Begin))

\* the unit tests call nft_mint on a Contract value they built with new()
NftMint ==
    \E pred \in Parties, deposit \in MintDeposits, token_id \in TokenIds,
       token_owner_id \in Parties :
        LET env == Env(pred, deposit, AnyTimestamp)
        IN  /\ state_exists
            /\ Settle("nft_mint", env,
                      [token_id |-> token_id, token_owner_id |-> token_owner_id,
                       token_metadata |-> sample_token_metadata],
                      nft_mint(Begin, env, token_id, token_owner_id,
                               sample_token_metadata))

NoReceipt ==
    [ method   |-> "none",
      env      |-> Env(None, 0, AnyTimestamp),
      args     |-> NoArgs,
      panic    |-> NoPanic,
      promises |-> <<>>,
      logs     |-> <<>>,
      trace    |-> <<>>,
      returned |-> {} ]

Init ==
    /\ state_exists = FALSE
    /\ tokens = NoTokens
    /\ metadata = {}
    /\ storage_usage = 0
    /\ storage_byte_cost \in 1..MaxPrice
    /\ account_balance = 0
    /\ receipt = NoReceipt
    /\ mutations = 0

Next ==
    \/ New
    \/ NftMintAll
    \/ NftTransfer
    \/ NftApprove
    \/ NftRevoke
    \/ NftRevokeAll
    \/ NftToken
    \/ NftIsApproved
    \/ NftMetadata

Spec == Init /\ [][Next]_vars

\* the issuance path alone, over every deposit and timestamp
NextIssuance ==
    \/ NewAnyDeposit
    \/ NftMintAllAnyDeposit

SpecIssuance == Init /\ [][NextIssuance]_vars

\* the contract as the unit tests drive it: with the test helper nft_mint
NextTest ==
    \/ New
    \/ NftMintAll
    \/ NftMint
    \/ NftToken

SpecTest == Init /\ [][NextTest]_vars

----------------------------------------------------------------------------
(* Properties *)

MustAttach == "Must attach yoctoNEAR to cover storage"

IsMintAll == receipt.method = "nft_mint_all"

Succeeded == receipt.panic = NoPanic

\* the meter readings of the last call, in order
Snapshots == SelectSeq(receipt.trace, LAMBDA e : e.op = "storage_usage")

\* the token creations the last call performed before it ended
Creations == SelectSeq(receipt.trace, LAMBDA e : e.op = "mint")

\* the last call created its tokens and reached the reconciliation
Reconciled == IsMintAll /\ Len(Snapshots) = 2

\* storage growth of the last call between its two snapshots, and its price
Delta == Snapshots[2].value - Snapshots[1].value

Required == Delta * storage_byte_cost

Prepaid == receipt.env.attached_deposit

Payer == receipt.env.predecessor_account_id

RegistryUnchanged ==
    /\ tokens' = tokens
    /\ metadata' = metadata
    /\ state_exists' = state_exists
    /\ storage_usage' = storage_usage

\* C1: a call of nft_mint_all whose three creations grew storage by
\* delta > 0 fails with the insufficient-deposit error exactly when the
\* attached deposit is below delta * storage price; with at least that much
\* attached the call does not fail.
C1_InsufficientDepositIff ==
    (Reconciled /\ Delta > 0) =>
        /\ (receipt.panic = MustAttach) <=> (Prepaid < Required)
        /\ (Prepaid >= Required) => Succeeded

C1_Witness ==
    /\ Reconciled /\ Delta > 0
    /\ Prepaid = Required - 1
    /\ receipt.panic = MustAttach

\* C2: when nft_mint_all fails at the reconciliation (deposit too small), the
\* registry after the call is the registry before it: no ownership, metadata,
\* enumeration or approval entry changed and none of the ids 0, 1, 2 created
\* earlier in the call exists.
C2_FailedReconcileLeavesRegistry ==
    [][ ( /\ receipt'.method = "nft_mint_all"
          /\ Len(SelectSeq(receipt'.trace, LAMBDA e : e.op = "storage_usage")) = 2
          /\ \/ receipt'.panic = MustAttach
             \/ receipt'.env.attached_deposit < Required' )
        => ( /\ RegistryUnchanged
             /\ CatalogIds \cap DOMAIN tokens'.owner_by_id = {} ) ]_vars

C2_Witness ==
    /\ Reconciled
    /\ receipt.panic = MustAttach
    /\ Len(Creations) = 3
    /\ DOMAIN tokens.owner_by_id = {}

\* C3 (as claimed): a successful reconciliation schedules a refund to the payer
\* of exactly prepaid - delta * storage price, whatever that excess is; the
\* contract keeps no unused part of the deposit.
C3_RefundsWholeExcess ==
    (Reconciled /\ Succeeded) =>
        /\ SumAmounts(receipt.promises) = Prepaid - Required
        /\ \A i \in DOMAIN receipt.promises : receipt.promises[i].receiver_id = Payer

\* C4 (as claimed, the kind of error left open): nft_mint_all called by an
\* account other than the owner recorded at initialization fails, whatever
\* the deposit, and creates no token.
C4_OnlyOwnerMintsAll ==
    (IsMintAll /\ state_exists /\ Payer # tokens.owner_id) =>
        /\ ~Succeeded
        /\ DOMAIN tokens.owner_by_id = {}

\* C5: when one of the ids 0, 1, 2 exists at the call, nft_mint_all fails with
\* "token_id must be unique" and keeps none of its creations (the ids before
\* the colliding one included); so every nft_mint_all after a successful one
\* fails and leaves the registry as it was.
C5_DuplicateIdFailsWhole ==
    [][ ( /\ receipt'.method = "nft_mint_all"
          /\ state_exists
          /\ CatalogIds \cap DOMAIN tokens.owner_by_id # {} )
        => ( /\ receipt'.panic = "token_id must be unique"
             /\ RegistryUnchanged
             /\ account_balance' = account_balance
             /\ receipt'.promises = <<>> ) ]_vars

\* the batch collided at its second id: token 0 was created and discarded
C5_Witness ==
    /\ IsMintAll
    /\ receipt.panic = "token_id must be unique"
    /\ Len(Creations) = 1
    /\ Catalog[1].token_id \notin DOMAIN tokens.owner_by_id
    /\ Catalog[2].token_id \in DOMAIN tokens.owner_by_id

MintAllEvent ==
    [ event     |-> "nft_mint",
      owner_id  |-> tokens.owner_id,
      token_ids |-> <<Catalog[1].token_id, Catalog[2].token_id, Catalog[3].token_id>> ]

CatalogIssuedToOwner ==
    /\ DOMAIN tokens.owner_by_id = CatalogIds
    /\ \A id \in CatalogIds : tokens.owner_by_id[id] = tokens.owner_id
    /\ receipt.logs = <<MintAllEvent>>

\* C6 (as claimed): a successful nft_mint_all on a registry without the catalog
\* ids creates exactly the tokens 0, 1, 2 for the recorded owner, issues one
\* refund, to the caller, and emits exactly one mint event naming the three ids
\* and the owner.
C6_OneRefundOneEvent ==
    (IsMintAll /\ Succeeded) =>
        /\ CatalogIssuedToOwner
        /\ Len(receipt.promises) = 1
        /\ receipt.promises[1].receiver_id = Payer

\* C6 (amended): a successful nft_mint_all creates exactly the tokens 0, 1, 2
\* for the recorded owner and emits exactly one mint event naming the three ids
\* and the owner; it issues at most one refund transfer, never one per token,
\* and only to the caller: exactly one, of the whole excess, when the deposit
\* exceeds the storage cost by more than 1, and none when the deposit equals
\* the cost.
C6_AtMostOneRefundOneEvent ==
    (IsMintAll /\ Succeeded) =>
        /\ Reconciled
        /\ CatalogIssuedToOwner
        /\ Len(receipt.promises) <= 1
        /\ \A i \in DOMAIN receipt.promises : receipt.promises[i].receiver_id = Payer
        /\ Prepaid - Required > 1 =>
              receipt.promises = <<[receiver_id |-> Payer, amount |-> Prepaid - Required]>>
        /\ Prepaid = Required => receipt.promises = <<>>

C6_Witness ==
    /\ IsMintAll /\ Succeeded
    /\ Payer # tokens.owner_id
    /\ Len(receipt.promises) = 1

\* the reconciliations (refund_deposit_to_account) the call of receipt r ran
Reconciliations(r) == SelectSeq(r.trace, LAMBDA e : e.op = "refund_deposit")

\* C7 (as claimed): a reconciliation over a storage delta <= 0 always succeeds
\* and refunds the payer prepaid + |delta| * storage price: the released
\* storage on top of the whole attached deposit.
C7_ReleaseRefundsDepositAndStorage ==
    [][ ( /\ Len(Reconciliations(receipt')) = 1
          /\ Reconciliations(receipt')[1].storage_used = 0
          /\ storage_usage' <= storage_usage )
        => ( /\ receipt'.panic = NoPanic
             /\ SumAmounts(receipt'.promises) =
                   receipt'.env.attached_deposit
                   + (storage_usage - storage_usage') * storage_byte_cost ) ]_vars

\* C8: a call that fails takes nothing of the attached deposit and leaves
\* nothing behind: the contract's balance and state are those before the call,
\* no transfer of the call is executed and no event of the call is logged.
C8_FailedCallTakesNothing ==
    [][ receipt'.panic # NoPanic
        => ( /\ account_balance' = account_balance
             /\ RegistryUnchanged
             /\ receipt'.promises = <<>>
             /\ receipt'.logs = <<>> ) ]_vars

\* an underfunded nft_mint_all with a deposit attached, its three creations
\* discarded
C8_Witness ==
    /\ IsMintAll
    /\ receipt.panic = MustAttach
    /\ Prepaid > 0
    /\ Len(Creations) = 3
    /\ DOMAIN tokens.owner_by_id = {}
    /\ account_balance = 0

NotInitialized == "The contract is not initialized"

\* C10: before new() has run every operation fails with "The contract is not
\* initialized" and changes nothing, and default construction of the contract
\* yields no value.
C10_UninitializedCallsFail ==
    [][ /\ ~Running(Contract_default(Begin))
        /\ (~state_exists /\ receipt'.method # "new")
           => ( /\ receipt'.panic = NotInitialized
                /\ RegistryUnchanged
                /\ account_balance' = account_balance
                /\ receipt'.promises = <<>>
                /\ receipt'.logs = <<>>
                /\ receipt'.returned = {} ) ]_vars

C10_Witness ==
    /\ ~state_exists
    /\ receipt.method = "nft_transfer"
    /\ receipt.env.attached_deposit = 1
    /\ receipt.panic = NotInitialized

\* the Token a call nft_mint(args) is to return and store
MintedToken(args) ==
    [ token_id |-> args.token_id,
      owner_id |-> args.token_owner_id,
      metadata |-> args.token_metadata,
      approved_account_ids |-> EmptyMap ]

\* C11: nft_mint(id, owner, metadata) called by the owner recorded at
\* initialization, with an id not in the registry, reaches its one
\* reconciliation, and with a deposit covering the storage it added it returns
\* and stores the token of that id, owner and metadata with no approval;
\* called by any other account it fails with "Unauthorized" and creates
\* nothing.
C11_MintByOwnerOnly ==
    [][ receipt'.method = "nft_mint" =>
          LET args == receipt'.args
              env  == receipt'.env
              recs == Reconciliations(receipt')
          IN  /\ ( /\ env.predecessor_account_id = tokens.owner_id
                   /\ ~Has(tokens.owner_by_id, args.token_id) )
                 => /\ Len(recs) = 1
                    /\ recs[1].storage_used > 0
                    /\ env.attached_deposit >= recs[1].storage_used * storage_byte_cost
                       => /\ receipt'.panic = NoPanic
                          /\ receipt'.returned = {MintedToken(args)}
                          /\ Export_nft_token(Begin', args.token_id).returned
                                = {MintedToken(args)}
              /\ env.predecessor_account_id # tokens.owner_id
                 => /\ receipt'.panic = "Unauthorized"
                    /\ RegistryUnchanged
                    /\ receipt'.logs = <<>>
                    /\ receipt'.promises = <<>> ]_vars

\* the owner minted a token to another account
C11_Witness ==
    /\ receipt.method = "nft_mint"
    /\ Succeeded
    /\ Payer = tokens.owner_id
    /\ receipt.args.token_owner_id # tokens.owner_id
    /\ receipt.returned = {MintedToken(receipt.args)}
    /\ Has(tokens.owner_by_id, receipt.args.token_id)

\* the step is a call nft_transfer(receiver, token_id) by the current owner
\* of the existing token, with exactly 1 yoctoNEAR attached
OwnerTransfers ==
    /\ receipt'.method = "nft_transfer"
    /\ Has(tokens.owner_by_id, receipt'.args.token_id)
    /\ receipt'.env.predecessor_account_id = tokens.owner_by_id[receipt'.args.token_id]
    /\ receipt'.env.attached_deposit = 1

\* after the step nft_token reports the token with the receiver as owner, its
\* metadata as before and no approval, and every other token has its owner
TransferredToReceiver ==
    LET args == receipt'.args
    IN  /\ Export_nft_token(Begin', args.token_id).returned =
              { [ token_id |-> args.token_id,
                  owner_id |-> args.receiver_id,
                  metadata |-> tokens.token_metadata_by_id[args.token_id],
                  approved_account_ids |-> EmptyMap ] }
        /\ DOMAIN tokens'.owner_by_id = DOMAIN tokens.owner_by_id
        /\ \A id \in DOMAIN tokens.owner_by_id \ {args.token_id} :
              tokens'.owner_by_id[id] = tokens.owner_by_id[id]

\* C12 (as claimed): after the current owner of an existing token calls
\* nft_transfer(receiver, token_id) with exactly 1 yoctoNEAR attached,
\* nft_token(token_id) reports owner = receiver, the same id and metadata and
\* an empty approval set, and no other token's owner has changed.
C12_OwnerTransferMovesToken ==
    [][ OwnerTransfers => TransferredToReceiver ]_vars

\* C12 (amended): such a call to a receiver other than the owner succeeds with
\* that outcome; to the owner itself it fails with "Current and next owner
\* must differ" and changes nothing, the token's approvals included.
C12_OwnerTransferToOtherMovesToken ==
    [][ OwnerTransfers =>
          IF receipt'.args.receiver_id # receipt'.env.predecessor_account_id
          THEN receipt'.panic = NoPanic /\ TransferredToReceiver
          ELSE /\ receipt'.panic = "Current and next owner must differ"
               /\ RegistryUnchanged ]_vars

\* the owner transferred a token that had been approved on: the approvals
\* are gone
C12_Witness ==
    /\ receipt.method = "nft_transfer"
    /\ Succeeded
    /\ receipt.logs[1].old_owner_id = Payer
    /\ tokens.owner_by_id[receipt.args.token_id] = receipt.args.receiver_id
    /\ Has(tokens.next_approval_id_by_id, receipt.args.token_id)
    /\ ~Has(tokens.approvals_by_id, receipt.args.token_id)

\* the step is a call nft_approve(token_id, grantee) by the owner of the
\* existing token with a deposit covering the storage of the approval: the
\* bytes of one approval record when the grantee is new, nothing otherwise
OwnerApproves ==
    LET args == receipt'.args
    IN  /\ receipt'.method = "nft_approve"
        /\ Has(tokens.owner_by_id, args.token_id)
        /\ receipt'.env.predecessor_account_id = tokens.owner_by_id[args.token_id]
        /\ receipt'.env.attached_deposit >=
              (IF ApprovalsOf(tokens, args.token_id) # {}
                  /\ Has(Unwrap(ApprovalsOf(tokens, args.token_id)), args.account_id)
               THEN 0
               ELSE bytes_for_approved_account_id(args.account_id) * storage_byte_cost)

\* nft_is_approved(token_id, account_id, approval_id) in the state after the step
IsApprovedAfter(token_id, account_id, approval_id) ==
    Export_nft_is_approved(Begin', token_id, account_id, approval_id).returned

\* C13: after the owner of a token calls nft_approve(token_id, grantee) with a
\* deposit covering the approval's storage, nft_is_approved(token_id, grantee,
\* id) is true for the id the grantee's approval carries and for no id given;
\* the call succeeds when at least 1 yoctoNEAR is attached, the id it grants
\* is the token's next approval id, and the first approval ever granted on a
\* token carries id 1.
C13_ApproveGrantsFromOne ==
    [][ OwnerApproves =>
          LET args == receipt'.args
              granted == tokens'.approvals_by_id[args.token_id][args.account_id]
          IN  /\ Has(tokens'.approvals_by_id, args.token_id)
              /\ Has(tokens'.approvals_by_id[args.token_id], args.account_id)
              /\ IsApprovedAfter(args.token_id, args.account_id, Some(granted)) = {TRUE}
              /\ IsApprovedAfter(args.token_id, args.account_id, {}) = {TRUE}
              /\ receipt'.env.attached_deposit >= 1 =>
                    /\ receipt'.panic = NoPanic
                    /\ granted = IF Has(tokens.next_approval_id_by_id, args.token_id)
                                 THEN tokens.next_approval_id_by_id[args.token_id]
                                 ELSE 1
                    /\ ~Has(tokens.next_approval_id_by_id, args.token_id) =>
                          IsApprovedAfter(args.token_id, args.account_id, Some(1))
                             = {TRUE} ]_vars

\* the owner granted another account the first approval of a token: id 1
C13_Witness ==
    /\ receipt.method = "nft_approve"
    /\ Succeeded
    /\ receipt.args.account_id # Payer
    /\ tokens.approvals_by_id[receipt.args.token_id][receipt.args.account_id] = 1
    /\ tokens.next_approval_id_by_id[receipt.args.token_id] = 2

\* the step is a call of `method` on an existing token by its owner with
\* exactly 1 yoctoNEAR attached
OwnerCallsWithOneYocto(method) ==
    /\ receipt'.method = method
    /\ Has(tokens.owner_by_id, receipt'.args.token_id)
    /\ receipt'.env.predecessor_account_id = tokens.owner_by_id[receipt'.args.token_id]
    /\ receipt'.env.attached_deposit = 1

\* after the step `account_id` is not approved on the token, whatever
\* approval id is asked about
NotApprovedAfter(token_id, account_id) ==
    \A approval_id \in ApprovalIds :
        IsApprovedAfter(token_id, account_id, approval_id) = {FALSE}

\* C14: after the owner of a token calls nft_revoke(token_id, grantee) or
\* nft_revoke_all(token_id) with 1 yoctoNEAR attached, the call has succeeded
\* and nft_is_approved(token_id, grantee, any approval id or none) is false,
\* for the revoked grantee and, after nft_revoke_all, for every account; the
\* owners and metadata of the tokens are as before; so an approval followed
\* by its revocation leaves the grantee not approved.
C14_RevokeUndoesApprove ==
    [][ /\ OwnerCallsWithOneYocto("nft_revoke") =>
              /\ receipt'.panic = NoPanic
              /\ NotApprovedAfter(receipt'.args.token_id, receipt'.args.account_id)
              /\ tokens'.owner_by_id = tokens.owner_by_id
              /\ tokens'.token_metadata_by_id = tokens.token_metadata_by_id
        /\ OwnerCallsWithOneYocto("nft_revoke_all") =>
              /\ receipt'.panic = NoPanic
              /\ \A account_id \in Accounts :
                    NotApprovedAfter(receipt'.args.token_id, account_id)
              /\ tokens'.owner_by_id = tokens.owner_by_id
              /\ tokens'.token_metadata_by_id = tokens.token_metadata_by_id ]_vars

\* the owner revoked an approval it had granted to another account: the
\* approval's storage is refunded and the token has no approval left
C14_Witness ==
    /\ receipt.method = "nft_revoke"
    /\ Succeeded
    /\ receipt.args.account_id # Payer
    /\ Len(receipt.promises) = 1
    /\ Has(tokens.next_approval_id_by_id, receipt.args.token_id)
    /\ ~Has(tokens.approvals_by_id, receipt.args.token_id)

\* the operations of nft_mint_all in the order the code performs them
MintAllOps ==
    <<"storage_usage", "mint", "mint", "mint", "storage_usage", "refund_deposit", "emit">>

\* the operations the last call performed before it ended, in order
OpsDone == [i \in 1..Len(receipt.trace) |-> receipt.trace[i].op]

\* the last call, a nft_mint_all, read the meter before its first creation
\* and after its third, reconciled once, against the difference of the two
\* readings, after the creations and before the mint event; a call that
\* panicked stopped somewhere along that order
MeteredAroundBatch ==
    /\ Len(OpsDone) <= Len(MintAllOps)
    /\ OpsDone = SubSeq(MintAllOps, 1, Len(OpsDone))
    /\ Succeeded =>
          /\ OpsDone = MintAllOps
          /\ Reconciliations(receipt)[1].storage_used = Delta
          /\ Reconciliations(receipt)[1].required_cost = Required
          /\ [i \in 1..3 |-> Creations[i].token_id]
                = [i \in 1..3 |-> Catalog[i].token_id]

\* C15 (as claimed): in nft_mint_all the meter is read exactly twice, before
\* the first creation and after the third, and the deposit is reconciled
\* exactly once against the difference, after the creations and before the
\* mint event, no creation reconciling or refunding on its own; so the amount
\* a successful call charges, the deposit less what is refunded, is the
\* storage price times the growth of the three creations.
C15_MeteredOnceChargedForGrowth ==
    IsMintAll =>
        /\ MeteredAroundBatch
        /\ Succeeded => Prepaid - SumAmounts(receipt.promises) = Required

AlreadyInitialized == "The contract has already been initialized"

\* C16: initialization happens at most once. A call of new() on an
\* initialized contract fails (with "The contract has already been
\* initialized" when nothing is attached) and leaves the recorded owner, the
\* registry and the collection metadata as they were; the contract becomes
\* initialized only by a new(), which records its caller as owner; and once
\* initialized it stays so with that owner and metadata, whatever is called.
C16_InitializedOnce ==
    [][ /\ (state_exists /\ receipt'.method = "new") =>
              /\ receipt'.panic # NoPanic
              /\ receipt'.env.attached_deposit = 0 => receipt'.panic = AlreadyInitialized
              /\ RegistryUnchanged
        /\ (~state_exists /\ state_exists') =>
              /\ receipt'.method = "new"
              /\ tokens'.owner_id = receipt'.env.predecessor_account_id
              /\ metadata' = Some([name |-> NFT_NAME, symbol |-> NFT_SYMBOL])
        /\ state_exists =>
              /\ state_exists'
              /\ tokens'.owner_id = tokens.owner_id
              /\ metadata' = metadata ]_vars

\* another account called new() on the initialized contract holding tokens
C16_Witness ==
    /\ receipt.method = "new"
    /\ receipt.panic = AlreadyInitialized
    /\ Payer # tokens.owner_id
    /\ DOMAIN tokens.owner_by_id = CatalogIds

\* the ids of the tokens that exist
ExistingIds == DOMAIN tokens.owner_by_id

\* C17: all or nothing. Whatever nft_mint_all calls (any caller, any deposit,
\* succeeding or failing), transfers, approvals and revocations have run since
\* new(), the set of existing token ids is empty or exactly {0, 1, 2}; a
\* nft_mint_all succeeds only on the empty registry and no token ever
\* disappears, so nft_mint_all succeeds at most once in a history.
C17_CatalogAllOrNothing ==
    [][ /\ ExistingIds \in {{}, CatalogIds}
        /\ ExistingIds' \in {{}, CatalogIds}
        /\ ExistingIds \subseteq ExistingIds'
        /\ (receipt'.method = "nft_mint_all" /\ receipt'.panic = NoPanic) =>
              /\ ExistingIds = {}
              /\ ExistingIds' = CatalogIds
        /\ ExistingIds' # ExistingIds =>
              (receipt'.method = "nft_mint_all" /\ receipt'.panic = NoPanic) ]_vars

\* a second nft_mint_all, after a token of the first has changed hands, failed
C17_Witness ==
    /\ IsMintAll
    /\ receipt.panic = "token_id must be unique"
    /\ ExistingIds = CatalogIds
    /\ \E id \in ExistingIds : tokens.owner_by_id[id] # tokens.owner_id

\* C18: funds conservation. For every successful nft_mint_all the refund
\* scheduled is at most the attached deposit and the deposit less the refund,
\* which is what the contract's balance gains, is at least the storage price
\* times the storage the call added: the contract pays out no more than was
\* attached and retains no less than the storage cost it incurred.
C18_FundsConserved ==
    [][ (receipt'.method = "nft_mint_all" /\ receipt'.panic = NoPanic) =>
          LET deposit == receipt'.env.attached_deposit
              refund  == SumAmounts(receipt'.promises)
              growth  == storage_usage' - storage_usage
          IN  /\ refund >= 0
              /\ refund <= deposit
              /\ growth > 0
              /\ deposit - refund >= storage_byte_cost * growth
              /\ account_balance' - account_balance = deposit - refund ]_vars

\* a nft_mint_all that was refunded and left the contract the storage cost
C18_Witness ==
    /\ IsMintAll /\ Succeeded
    /\ SumAmounts(receipt.promises) >= 2
    /\ account_balance = Required
    /\ storage_byte_cost = MaxPrice

====
